---------------------------- MODULE Spec2Model ----------------------------
(***************************************************************************)
(* State-machine model of demcoreg/dem_mask.py: the selection of control   *)
(* surfaces for DEM co-registration.                                       *)
(*                                                                         *)
(*   Spec      main(): source gathering, culling of absent sources,        *)
(*             reconciliation, per-source mask derivation, AND-chain and   *)
(*             the masked DEM.                                             *)
(*   SpecProc  proc_modscag(): the temporal composite of a dated stack.    *)
(*                                                                         *)
(* Rasters are arrays over the cells 1..N of a grid.  A numpy masked array *)
(* is an array of records [v |-> data, m |-> masked?].  Dates are          *)
(* proleptic Gregorian ordinals (datetime.toordinal()), one unit per day.  *)
(* Arrays read from a dataset are inputs: they are drawn when the code     *)
(* reads them (ds_getma / ReadAsArray).  A local is dropped from the state *)
(* (set back to its empty value) once the code no longer reads it.         *)
(***************************************************************************)
EXTENDS Integers, Sequences, FiniteSets, TLC

(* ------------------------------ bounds --------------------------------- *)

\* number of cells of the DEM (reference) grid
NCells == 2
\* largest number of dated mosaics handed to proc_modscag
MaxDates == 3
\* largest pad_days get_modscag is called with on its own
MaxPad == 2

Cells == 1..NCells
\* proc_modscag reduces the stack along the date axis, cell by cell: the
\* model follows the column of one cell of the mosaic grid
StackCells == {1}

(* ------------------------- program constants --------------------------- *)

\* datetime(2000,2,24).toordinal()
modscag_min_dt == 730174
\* datetime(2003,9,30).toordinal()
snodas_min_dt == 731488
\* pad_days=7 in main()
pad_days == 7
\* minperc=80 passed by main() to mask_bareground
minperc == 80
\* snodas_max_depth = 0.2 m, in millimetres (the raster's unit)
snodas_max_depth == 200
\* modscag_thresh = 50 percent
modscag_thresh == 50
\* toa_thresh = 0.4, in thousandths of reflectance
toa_thresh == 400
\* NLCD class codes
nlcd_rock == 31
nlcd_ice == 12
nlcd_water == 11
\* '-vrtnodata', '255' of the per-date mosaic
vrtnodata == 255
\* masked_greater(.., 100) in proc_modscag
modscag_max_valid == 100
\* set_fill_value(0) of the composite rasters
stack_fill_value == 0

(* ------------------------------ values --------------------------------- *)

\* Python's None for a dataset slot
None == [ds |-> "None", grid |-> "None"]
\* an opened dataset on its own grid
Open(name) == [ds |-> name, grid |-> "native"]
\* an array the run has not computed (or has released)
NoArray == << >>

\* one unmasked / one masked cell of a masked array
Val(x) == [v |-> x, m |-> FALSE]
Masked(x) == [v |-> x, m |-> TRUE]

\* np.ma.getmaskarray
getmaskarray(a) == [c \in DOMAIN a |-> a[c].m]

\* ~mask on a boolean array
invert(b) == [c \in DOMAIN b |-> ~b[c]]

\* ma.filled(fill)
filled(a, fill) == [c \in DOMAIN a |-> IF a[c].m THEN fill ELSE a[c].v]

\* np.ma.masked_greater(a, value): the old mask or-ed with (data > value)
masked_greater(a, value) ==
    [c \in DOMAIN a |-> [v |-> a[c].v, m |-> a[c].m \/ a[c].v > value]]

\* iolib.ds_getma: the band's array with the cells equal to ndv masked
ds_getma(raw, ndv) == [c \in DOMAIN raw |-> [v |-> raw[c], m |-> raw[c] = ndv]]

\* a mutant of logical_and: the source mask overwrites the running mask
logical_and_overwrite(a, b) == a
\* a mutant of logical_and: the masks are or-ed
logical_and_or(a, b) == [c \in DOMAIN a |-> a[c] \/ b[c]]
\* np.logical_and(a, b), cell by cell
logical_and(a, b) == [c \in DOMAIN a |-> a[c] /\ b[c]]

(* ----------------------------- geometry -------------------------------- *)

\* A footprint is an axis-parallel box <<xmin, ymin, xmax, ymax>> in a
\* spatial reference.  A spatial reference is known by the position of its
\* origin; a transform between two of them is the shift between the origins.
SrsOrigin == [albers |-> 0, wgs |-> 0, utm |-> 5]

Geom(srs, box) == [srs |-> srs, box |-> box]

\* geolib.geom_transform(geom, t_srs)
geom_transform(geom, t_srs) ==
    LET d == SrsOrigin[geom.srs] - SrsOrigin[t_srs]
    IN  Geom(t_srs, <<geom.box[1] + d, geom.box[2] + d,
                      geom.box[3] + d, geom.box[4] + d>>)

\* a mutant of Contains: overlap is taken for containment
Contains_intersects(a, b) ==
    /\ a.box[1] <= b.box[3] /\ b.box[1] <= a.box[3]
    /\ a.box[2] <= b.box[4] /\ b.box[2] <= a.box[4]
\* ogr Geometry.Contains for boxes of positive area: no point of b lies
\* outside a
Contains(a, b) ==
    /\ a.box[1] <= b.box[1] /\ b.box[3] <= a.box[3]
    /\ a.box[2] <= b.box[2] /\ b.box[4] <= a.box[4]

\* ogr Geometry.Intersects for boxes: they share at least one point
Intersects(a, b) ==
    /\ a.box[1] <= b.box[3] /\ b.box[1] <= a.box[3]
    /\ a.box[2] <= b.box[4] /\ b.box[2] <= a.box[4]

\* geolib.ds_geom(lulc_ds): the coverage of the NLCD grid
lulc_geom == Geom("albers", <<0, 0, 10, 10>>)

\* modis_grid.modis_dict: tile name -> bounding box (WGS84)
modis_dict == [h08v04 |-> <<0, 0, 10, 10>>, h09v04 |-> <<11, 0, 20, 10>>]

\* the tile names in the dictionary's order
modis_keys == <<"h08v04", "h09v04">>

\* get_modis_tile_list(geom): the tiles that intersect the footprint
get_modis_tile_list(geom) ==
    LET geom_dup == geom_transform(geom, "wgs")
        hit(key) == Intersects(geom_dup, Geom("wgs", modis_dict[key]))
    IN  SelectSeq(modis_keys, hit)

(* --------------------------- the source dict --------------------------- *)

\* ds_dict is an OrderedDict: a sequence of items [k |-> key, v |-> value]
DictKeys(d) == {d[i].k : i \in DOMAIN d}

DictIndex(d, key) == CHOOSE i \in DOMAIN d : d[i].k = key

DictGet(d, key) == d[DictIndex(d, key)].v

\* d[key] = value: a new key goes last, a known key keeps its place
DictSet(d, key, value) ==
    IF key \in DictKeys(d)
    THEN [d EXCEPT ![DictIndex(d, key)] = [k |-> key, v |-> value]]
    ELSE Append(d, [k |-> key, v |-> value])

\* del d[key] of the item at position i
DictDelAt(d, i) == SubSeq(d, 1, i - 1) \o SubSeq(d, i + 1, Len(d))

NotNone(item) == item.v # None

(* ------------------------------ get_modscag ---------------------------- *)

\* a mutant of dt_range: the stop date is part of the range
dt_range_closed(start, stop, step) ==
    IF stop < start THEN << >>
    ELSE [i \in 1..((stop - start) \div step + 1) |-> start + (i - 1) * step]
\* timelib.dt_range(start, stop, step): start, start+step, ... below stop
dt_range(start, stop, step) ==
    IF stop <= start THEN << >>
    ELSE [i \in 1..((stop - start + step - 1) \div step) |-> start + (i - 1) * step]

\* One pass of the loop over dt_list.  net.avail: the <<date, tile>> pairs a
\* server lists; net.vrt: the dates whose mosaic is on disk; net.vrt_files:
\* the <<date, tile>> pairs those mosaics hold.
modscag_date(out_vrt_fn_list, dt, tile_list, net) ==
    LET has_all == \A i \in DOMAIN tile_list : <<dt, tile_list[i]>> \in net.vrt_files
        found(tile) == <<dt, tile>> \in net.avail
        modscag_fn_list_dt == SelectSeq(tile_list, found)
    IN  IF dt \in net.vrt /\ has_all
        THEN Append(out_vrt_fn_list, dt)
        ELSE IF modscag_fn_list_dt # << >>
             THEN Append(out_vrt_fn_list, dt)
             ELSE out_vrt_fn_list

RECURSIVE modscag_loop(_, _, _, _, _)
modscag_loop(out_vrt_fn_list, dt_list, i, tile_list, net) ==
    IF i > Len(dt_list) THEN out_vrt_fn_list
    ELSE modscag_loop(modscag_date(out_vrt_fn_list, dt_list[i], tile_list, net),
                      dt_list, i + 1, tile_list, net)

\* get_modscag(dem_dt, outdir, tile_list, pad_days): the dates with a mosaic
get_modscag(dt, tile_list, pad, net) ==
    LET dt_list == dt_range(dt - pad, dt + pad + 1, 1)
    IN  modscag_loop(<< >>, dt_list, 1, tile_list, net)

\* no server answers and the download directory is empty
NoNet == [avail |-> {}, vrt |-> {}, vrt_files |-> {}]

\* The network and the download directory as get_modscag may find them for
\* the window around dt: nothing; the centre date alone, every tile; every
\* date but the centre, first tile only; nothing on the servers, but the
\* mosaic of the first date on disk, complete, and that of the second date
\* on disk without its tiles.
ModscagNets(dt, tile_list, pad) ==
    LET dt_list == dt_range(dt - pad, dt + pad + 1, 1)
        days == {dt_list[i] : i \in DOMAIN dt_list}
        tiles == {tile_list[i] : i \in DOMAIN tile_list}
        first == IF tile_list = << >> THEN {} ELSE {tile_list[1]}
    IN  { NoNet,
          [avail |-> {dt} \X tiles, vrt |-> {}, vrt_files |-> {}],
          [avail |-> (days \ {dt}) \X first, vrt |-> {}, vrt_files |-> {}],
          [avail |-> {}, vrt |-> {dt - pad, dt - pad + 1},
           vrt_files |-> {dt - pad} \X tiles] }

(* ------------------------------- culling ------------------------------- *)

\* Python 2: items() is a list copy, every None item is deleted
cull_py2(d) == [d |-> SelectSeq(d, NotNone), err |-> "none"]

\* Python 3: items() is a live view.  The first deletion invalidates the
\* iterator: the next step raises RuntimeError, unless the deleted item was
\* the last one and the iterator is already exhausted.
cull_py3(d) ==
    IF \A i \in DOMAIN d : d[i].v # None
    THEN [d |-> d, err |-> "none"]
    ELSE LET i == CHOOSE j \in DOMAIN d :
                      /\ d[j].v = None
                      /\ \A h \in 1..(j - 1) : d[h].v # None
         IN  [d |-> DictDelAt(d, i),
              err |-> IF i = Len(d) THEN "none" ELSE "RuntimeError"]

\* for k,v in ds_dict.items(): if v is None: del ds_dict[k]
cull(d, py) == IF py = 2 THEN cull_py2(d) ELSE cull_py3(d)

\* warplib.memwarp_multi: every dataset comes back on the DEM grid
memwarp_multi(d) == [i \in DOMAIN d |-> [k |-> d[i].k, v |-> [d[i].v EXCEPT !.grid = "dem"]]]

(* --------------------------- mask derivation --------------------------- *)

\* geolib.shp2array(glac_shp_fn, ds): the outlines burnt onto the grid of ds
\* and inverted: FALSE inside an outline, TRUE outside.  shp is the set of
\* cells the outlines cover.
shp2array(shp) == [c \in Cells |-> c \notin shp]

\* a mutant of mask_glaciers: the outlines are never burnt
mask_glaciers_unburnt(shp) == [c \in Cells |-> TRUE]
\* mask_glaciers(ds)
mask_glaciers(shp) == shp2array(shp)

\* mask *= icemask, skipped when icemask is None
imul(mask, icemask) ==
    IF icemask = NoArray THEN mask
    ELSE [c \in DOMAIN mask |-> mask[c] /\ icemask[c]]

\* mask_nlcd(ds, valid): l is the band's array
mask_nlcd(l, shp, valid) ==
    LET mask == IF valid = "rock"
                THEN [c \in DOMAIN l |-> l[c] = nlcd_rock]
                ELSE IF valid = "rock+ice"
                THEN [c \in DOMAIN l |-> l[c] = nlcd_rock \/ l[c] = nlcd_ice]
                ELSE NoArray
    IN  imul(mask, mask_glaciers(shp))

\* a mutant of mask_bareground: the threshold itself passes
mask_bareground_ge(l, shp, perc) ==
    imul([c \in DOMAIN l |-> l[c] >= perc], mask_glaciers(shp))
\* mask_bareground(ds, minperc): l is the band's array
mask_bareground(l, shp, perc) ==
    imul([c \in DOMAIN l |-> l[c] > perc], mask_glaciers(shp))

\* a mutant of snodas_rule: a depth equal to the maximum is rejected too
snodas_rule_strict(snodas_depth) ==
    [c \in DOMAIN snodas_depth |->
        ~snodas_depth[c].m /\ snodas_depth[c].v < snodas_max_depth]
\* snodas_mask = ~getmaskarray(masked_greater(snodas_depth, snodas_max_depth))
snodas_rule(snodas_depth) ==
    invert(getmaskarray(masked_greater(snodas_depth, snodas_max_depth)))

\* modscag_mask = ~(modscag_perc.filled(0) >= modscag_thresh)
modscag_rule(modscag_perc) ==
    invert([c \in DOMAIN modscag_perc |-> filled(modscag_perc, 0)[c] >= modscag_thresh])

\* toa_mask = ~getmaskarray(masked_greater(toa, toa_thresh))
toa_rule(toa_ma) == invert(getmaskarray(masked_greater(toa_ma, toa_thresh)))

\* a mutant of dem_valid: every cell of the DEM starts out valid
dem_valid_all(dem_ma) == [c \in DOMAIN dem_ma |-> TRUE]
\* newmask = ~(np.ma.getmaskarray(dem))
dem_valid(dem_ma) == invert(getmaskarray(dem_ma))

\* np.ma.array(dem, mask=newmask): the mask is or-ed onto the DEM's own
ma_array(dem_ma, mask) ==
    [c \in DOMAIN dem_ma |-> [v |-> dem_ma[c].v, m |-> mask[c] \/ dem_ma[c].m]]

(* ------------------------------- inputs -------------------------------- *)

\* DEM acquisition dates: before any product, MODSCAG only, both products
DemDates == {modscag_min_dt - 1, modscag_min_dt, snodas_min_dt}

\* DEM footprints, each in the DEM's own spatial reference: inside the NLCD
\* coverage; inside by its numbers but straddling the edge once reprojected;
\* outside
DemGeoms == { Geom("albers", <<1, 1, 2, 2>>),
              Geom("utm", <<4, 4, 6, 6>>),
              Geom("albers", <<20, 20, 21, 21>>) }

\* the empty values of the switches and of the footprint
NoArgs == [snodas |-> FALSE, modscag |-> FALSE, toa |-> FALSE]
NoGeom == Geom("none", <<0, 0, 0, 0>>)

DemVals == {Masked(0), Val(1200)}
NlcdVals == {nlcd_water, nlcd_ice, nlcd_rock}
BaregroundVals == {0, minperc, minperc + 1}
SnodasVals == {Masked(0), Val(snodas_max_depth), Val(snodas_max_depth + 1)}
ModscagVals == {Masked(0), Val(modscag_thresh - 1), Val(modscag_thresh)}
ToaVals == {Masked(0), Val(toa_thresh), Val(toa_thresh + 1)}

(* -------------------------------- state -------------------------------- *)

VARIABLES
    pc,               \* position in main()
    err,              \* the exception that ended the run, or "none"
    args,             \* the command line switches
    dem_dt,           \* the DEM's acquisition date
    dem_geom,         \* the DEM footprint, geolib.ds_geom(dem_ds)
    lulc_source,      \* "nlcd" or "bareground"
    ds_dict,          \* the source bundle
    net,              \* the servers and the download directory get_modscag met
    modscag_fn_list,  \* the dates get_modscag returned
    dem,              \* the DEM as a masked array
    lulc_l,           \* the land-cover band
    glac_shp,         \* the cells the glacier outlines cover
    snodas_depth,     \* snow depth, masked array
    modscag_perc,     \* composite snow cover, masked array
    toa,              \* reflectance, masked array
    rockmask, snodas_mask, modscag_mask, toa_mask,
    newmask,          \* the running control-surface mask
    newdem,           \* the masked DEM that is written
    proc_pc,          \* position in proc_modscag()
    ma_stack,         \* the stack of dated mosaics, masked arrays
    stack_count, stack_min, stack_max, stack_med,
    gm_pc,            \* position in get_modscag()
    gm_dem_dt,        \* its arguments: centre date, tile_list, pad_days
    gm_tile_list,
    gm_pad_days,
    gm_net,           \* the servers and the download directory it meets
    gm_dt_list,       \* dt_list
    gm_dt_seen,       \* the values the loop variable dt has taken, in order
    gm_out_vrt_fn_list \* out_vrt_fn_list

mainvars == <<pc, err, args, dem_dt, dem_geom, lulc_source, ds_dict,
              net, modscag_fn_list, dem, lulc_l, glac_shp, snodas_depth,
              modscag_perc, toa, rockmask, snodas_mask, modscag_mask,
              toa_mask, newmask, newdem>>

procvars == <<proc_pc, ma_stack, stack_count, stack_min, stack_max, stack_med>>

gmvars == <<gm_pc, gm_dem_dt, gm_tile_list, gm_pad_days, gm_net, gm_dt_list,
            gm_dt_seen, gm_out_vrt_fn_list>>

vars == <<mainvars, procvars, gmvars>>

arrays == <<dem, lulc_l, glac_shp, snodas_depth, modscag_perc, toa, rockmask,
            snodas_mask, modscag_mask, toa_mask, newmask, newdem>>

ProcIdle ==
    /\ proc_pc = "idle"
    /\ ma_stack = << >>
    /\ stack_count = NoArray /\ stack_min = NoArray
    /\ stack_max = NoArray /\ stack_med = NoArray

GmIdle ==
    /\ gm_pc = "idle"
    /\ gm_dem_dt = 0 /\ gm_tile_list = << >> /\ gm_pad_days = 0
    /\ gm_net = NoNet
    /\ gm_dt_list = << >> /\ gm_dt_seen = << >> /\ gm_out_vrt_fn_list = << >>

MainIdle ==
    /\ pc = "idle" /\ err = "none"
    /\ args = NoArgs
    /\ dem_dt = 0
    /\ dem_geom = NoGeom
    /\ lulc_source = "unset"
    /\ ds_dict = << >>
    /\ net = NoNet
    /\ modscag_fn_list = << >>
    /\ dem = NoArray /\ lulc_l = NoArray /\ glac_shp = {}
    /\ snodas_depth = NoArray /\ modscag_perc = NoArray /\ toa = NoArray
    /\ rockmask = NoArray /\ snodas_mask = NoArray
    /\ modscag_mask = NoArray /\ toa_mask = NoArray
    /\ newmask = NoArray /\ newdem = NoArray

(* -------------------------------- main() ------------------------------- *)

\* lines 367-390: the arguments are parsed and the DEM is opened
Init ==
    /\ pc = "lulc" /\ err = "none"
    /\ args \in [snodas : BOOLEAN, modscag : BOOLEAN, toa : BOOLEAN]
    /\ dem_dt \in DemDates
    /\ dem_geom \in DemGeoms
    /\ lulc_source = "unset"
    /\ ds_dict = <<[k |-> "dem", v |-> Open("dem")]>>
    /\ net = NoNet
    /\ modscag_fn_list = << >>
    /\ dem = NoArray /\ lulc_l = NoArray /\ glac_shp = {}
    /\ snodas_depth = NoArray /\ modscag_perc = NoArray /\ toa = NoArray
    /\ rockmask = NoArray /\ snodas_mask = NoArray
    /\ modscag_mask = NoArray /\ toa_mask = NoArray
    /\ newmask = NoArray /\ newdem = NoArray
    /\ ProcIdle
    /\ GmIdle

\* lines 392-409: the land-cover product is chosen by containment
SelectLulc ==
    /\ pc = "lulc"
    /\ LET g == geom_transform(dem_geom, lulc_geom.srs)
       IN  /\ dem_geom' = g
           /\ IF Contains(lulc_geom, g)
              THEN /\ lulc_source' = "nlcd"
                   /\ ds_dict' = DictSet(DictSet(ds_dict, "lulc", None), "lulc", Open("nlcd"))
              ELSE /\ lulc_source' = "bareground"
                   /\ ds_dict' = DictSet(DictSet(ds_dict, "lulc", None), "lulc", Open("bareground"))
    /\ pc' = "snodas"
    /\ UNCHANGED <<err, args, dem_dt, net, modscag_fn_list, arrays, procvars, gmvars>>

\* lines 411-421: get_snodas returns a dataset or None
GetSnodas ==
    /\ pc = "snodas"
    /\ \E snodas_ds \in {None, Open("snodas")} :
         ds_dict' = IF args.snodas /\ dem_dt >= snodas_min_dt /\ snodas_ds # None
                    THEN DictSet(DictSet(ds_dict, "snodas", None), "snodas", snodas_ds)
                    ELSE DictSet(ds_dict, "snodas", None)
    /\ pc' = "modscag"
    /\ UNCHANGED <<err, args, dem_dt, dem_geom, lulc_source,
                   net, modscag_fn_list, arrays, procvars, gmvars>>

\* lines 423-439: the window is fetched; proc_modscag runs on a non-empty
\* series and returns the median composite
GetModscag ==
    /\ pc = "modscag"
    /\ IF args.modscag /\ dem_dt >= modscag_min_dt
       THEN LET tile_list == get_modis_tile_list(dem_geom)
            IN  \E n \in ModscagNets(dem_dt, tile_list, pad_days) :
                  LET fn_list == get_modscag(dem_dt, tile_list, pad_days, n)
                  IN  /\ net' = n
                      /\ modscag_fn_list' = fn_list
                      /\ ds_dict' = IF fn_list # << >>
                                    THEN DictSet(DictSet(ds_dict, "modscag", None),
                                                 "modscag", Open("modscag_med"))
                                    ELSE DictSet(ds_dict, "modscag", None)
       ELSE /\ net' = net
            /\ modscag_fn_list' = << >>
            /\ ds_dict' = DictSet(ds_dict, "modscag", None)
    /\ pc' = "toa"
    /\ UNCHANGED <<err, args, dem_dt, dem_geom, lulc_source, arrays, procvars, gmvars>>

\* lines 444-455: toa_fn[0] raises IndexError when no *toa.tif is found
GetToa ==
    /\ pc = "toa"
    /\ IF args.toa
       THEN \E toa_fn \in {"none", "toa.tif"} :
              IF toa_fn = "none"
              THEN /\ ds_dict' = DictSet(ds_dict, "toa", None)
                   /\ pc' = "error" /\ err' = "IndexError"
              ELSE /\ ds_dict' = DictSet(DictSet(ds_dict, "toa", None), "toa", Open("toa"))
                   /\ pc' = "cull" /\ err' = err
       ELSE /\ ds_dict' = DictSet(ds_dict, "toa", None)
            /\ pc' = "cull" /\ err' = err
    /\ UNCHANGED <<args, dem_dt, dem_geom, lulc_source,
                   net, modscag_fn_list, arrays, procvars, gmvars>>

\* lines 457-460: the None entries are deleted while the dict is iterated
Cull ==
    /\ pc = "cull"
    /\ \E py \in {2, 3} :
         LET r == cull(ds_dict, py)
         IN  /\ ds_dict' = r.d
             /\ err' = r.err
             /\ pc' = IF r.err = "none" THEN "warp" ELSE "error"
    /\ UNCHANGED <<args, dem_dt, dem_geom, lulc_source,
                   net, modscag_fn_list, arrays, procvars, gmvars>>

\* lines 462-468: every dataset left is warped to the DEM grid.  The
\* switches, the date, the footprint and the series are not read again.
Warp ==
    /\ pc = "warp"
    /\ ds_dict' = memwarp_multi(ds_dict)
    /\ args' = NoArgs /\ dem_dt' = 0 /\ dem_geom' = NoGeom
    /\ net' = NoNet /\ modscag_fn_list' = << >>
    /\ pc' = "dem"
    /\ UNCHANGED <<err, lulc_source, arrays, procvars, gmvars>>

\* lines 472-473: the DEM is read, its valid cells start the mask
ReadDem ==
    /\ pc = "dem"
    /\ \E a \in [Cells -> DemVals] :
         /\ dem' = a
         /\ newmask' = dem_valid(a)
    /\ pc' = "rockmask"
    /\ UNCHANGED <<err, args, dem_dt, dem_geom, lulc_source, ds_dict,
                   net, modscag_fn_list, lulc_l, glac_shp, snodas_depth,
                   modscag_perc, toa, rockmask, snodas_mask, modscag_mask,
                   toa_mask, newdem, procvars, gmvars>>

\* lines 477-487: the land-cover mask, glaciers removed, is and-ed in
RockMask ==
    /\ pc = "rockmask"
    /\ IF "lulc" \in DictKeys(ds_dict)
       THEN \E l \in [Cells -> IF lulc_source = "nlcd" THEN NlcdVals ELSE BaregroundVals],
               shp \in SUBSET Cells :
              LET m == IF lulc_source = "nlcd"
                       THEN mask_nlcd(l, shp, "rock")
                       ELSE mask_bareground(l, shp, minperc)
              IN  /\ lulc_l' = l
                  /\ glac_shp' = shp
                  /\ rockmask' = m
                  /\ newmask' = logical_and(m, newmask)
       ELSE UNCHANGED <<lulc_l, glac_shp, rockmask, newmask>>
    /\ pc' = "snodas_mask"
    /\ UNCHANGED <<err, args, dem_dt, dem_geom, lulc_source, ds_dict,
                   net, modscag_fn_list, dem, snodas_depth, modscag_perc, toa,
                   snodas_mask, modscag_mask, toa_mask, newdem, procvars, gmvars>>

\* lines 489-505: the snow-depth mask is and-ed in
SnodasMask ==
    /\ pc = "snodas_mask"
    /\ IF "snodas" \in DictKeys(ds_dict)
       THEN \E a \in [Cells -> SnodasVals] :
              /\ snodas_depth' = a
              /\ snodas_mask' = snodas_rule(a)
              /\ newmask' = logical_and(snodas_rule(a), newmask)
       ELSE UNCHANGED <<snodas_depth, snodas_mask, newmask>>
    /\ lulc_l' = NoArray /\ glac_shp' = {}
    /\ pc' = "modscag_mask"
    /\ UNCHANGED <<err, args, dem_dt, dem_geom, lulc_source, ds_dict,
                   net, modscag_fn_list, dem, modscag_perc, toa, rockmask,
                   modscag_mask, toa_mask, newdem, procvars, gmvars>>

\* lines 507-522: the snow-cover mask is and-ed in
ModscagMask ==
    /\ pc = "modscag_mask"
    /\ IF "modscag" \in DictKeys(ds_dict)
       THEN \E a \in [Cells -> ModscagVals] :
              /\ modscag_perc' = a
              /\ modscag_mask' = modscag_rule(a)
              /\ newmask' = logical_and(modscag_rule(a), newmask)
       ELSE UNCHANGED <<modscag_perc, modscag_mask, newmask>>
    /\ snodas_depth' = NoArray
    /\ pc' = "toa_mask"
    /\ UNCHANGED <<err, args, dem_dt, dem_geom, lulc_source, ds_dict,
                   net, modscag_fn_list, dem, lulc_l, glac_shp, toa, rockmask,
                   snodas_mask, toa_mask, newdem, procvars, gmvars>>

\* lines 524-535: the reflectance mask is and-ed in
ToaMask ==
    /\ pc = "toa_mask"
    /\ IF "toa" \in DictKeys(ds_dict)
       THEN \E a \in [Cells -> ToaVals] :
              /\ toa' = a
              /\ toa_mask' = toa_rule(a)
              /\ newmask' = logical_and(toa_rule(a), newmask)
       ELSE UNCHANGED <<toa, toa_mask, newmask>>
    /\ modscag_perc' = NoArray
    /\ pc' = "apply"
    /\ UNCHANGED <<err, args, dem_dt, dem_geom, lulc_source, ds_dict,
                   net, modscag_fn_list, dem, lulc_l, glac_shp, snodas_depth,
                   rockmask, snodas_mask, modscag_mask, newdem, procvars, gmvars>>

\* lines 544-555: the mask is inverted and laid over the DEM, which is written
ApplyMask ==
    /\ pc = "apply"
    /\ newmask' = invert(newmask)
    /\ newdem' = ma_array(dem, invert(newmask))
    /\ toa' = NoArray
    /\ pc' = "done"
    /\ UNCHANGED <<err, args, dem_dt, dem_geom, lulc_source, ds_dict,
                   net, modscag_fn_list, dem, lulc_l, glac_shp, snodas_depth,
                   modscag_perc, rockmask, snodas_mask, modscag_mask,
                   toa_mask, procvars, gmvars>>

Next ==
    \/ SelectLulc
    \/ GetSnodas
    \/ GetModscag
    \/ GetToa
    \/ Cull
    \/ Warp
    \/ ReadDem
    \/ RockMask
    \/ SnodasMask
    \/ ModscagMask
    \/ ToaMask
    \/ ApplyMask

Spec == Init /\ [][Next]_vars

(* ----------------------------- proc_modscag ---------------------------- *)

\* the values a mosaic cell can hold: the vrt's no-data, snow fractions,
\* the largest valid fraction and a cloud / fill code above it
StackVals == {vrtnodata, 20, 25, 60, modscag_max_valid, modscag_max_valid + 1}

\* a mutant of stack_layer: a value above 100 is clamped to 100 and kept
stack_layer_clamped(raw) ==
    [c \in DOMAIN raw |->
        [v |-> IF raw[c] # vrtnodata /\ raw[c] > modscag_max_valid
               THEN modscag_max_valid ELSE raw[c],
         m |-> raw[c] = vrtnodata]]
\* line 334: np.ma.masked_greater(iolib.ds_getma(ds), 100) of one mosaic
stack_layer(raw) == masked_greater(ds_getma(raw, vrtnodata), modscag_max_valid)

\* the unmasked values of cell c along axis 0, in date order
column(stack, c) ==
    LET col == [i \in DOMAIN stack |-> stack[i][c]]
        unmasked(x) == ~x.m
        kept == SelectSeq(col, unmasked)
    IN  [i \in DOMAIN kept |-> kept[i].v]

RECURSIVE insert(_, _)
insert(s, x) ==
    IF s = << >> THEN <<x>>
    ELSE IF x <= Head(s) THEN <<x>> \o s
    ELSE <<Head(s)>> \o insert(Tail(s), x)

RECURSIVE sort(_)
sort(s) == IF s = << >> THEN << >> ELSE insert(sort(Tail(s)), Head(s))

\* ma_stack.count(axis=0), masked where it is 0
count_axis0(stack) ==
    [c \in StackCells |->
        LET n == Len(column(stack, c))
        IN  IF n = 0 THEN Masked(stack_fill_value) ELSE Val(n)]

\* ma_stack.min(axis=0)
min_axis0(stack) ==
    [c \in StackCells |->
        LET s == sort(column(stack, c))
        IN  IF s = << >> THEN Masked(stack_fill_value) ELSE Val(s[1])]

\* ma_stack.max(axis=0)
max_axis0(stack) ==
    [c \in StackCells |->
        LET s == sort(column(stack, c))
        IN  IF s = << >> THEN Masked(stack_fill_value) ELSE Val(s[Len(s)])]

\* a mutant of median_axis0: the upper of the two middle values is taken
median_axis0_upper(stack) ==
    [c \in StackCells |->
        LET s == sort(column(stack, c))
        IN  IF s = << >> THEN Masked(stack_fill_value)
            ELSE Val(s[(Len(s) \div 2) + 1])]
\* np.ma.median(ma_stack, axis=0).astype(np.uint8): the middle value, or the
\* mean of the two middle values, its fraction cut off by the cast
median_axis0(stack) ==
    [c \in StackCells |->
        LET s == sort(column(stack, c))
            n == Len(s)
            h == n \div 2
        IN  IF n = 0 THEN Masked(stack_fill_value)
            ELSE IF n % 2 = 1 THEN Val(s[h + 1])
            ELSE Val((s[h] + s[h + 1]) \div 2)]

\* proc_modscag is entered with a non-empty fn_list (main, line 437)
InitProc ==
    /\ MainIdle
    /\ GmIdle
    /\ proc_pc = "start"
    /\ ma_stack = << >>
    /\ stack_count = NoArray /\ stack_min = NoArray
    /\ stack_max = NoArray /\ stack_med = NoArray

\* lines 330-352: the mosaics are warped, read and stacked, and the four
\* composites are computed and written
ProcModscag ==
    /\ proc_pc = "start"
    /\ \E n \in 1..MaxDates :
         \E raw \in [1..n -> [StackCells -> StackVals]] :
            LET stack == [i \in 1..n |-> stack_layer(raw[i])]
            IN  /\ ma_stack' = stack
                /\ stack_count' = count_axis0(stack)
                /\ stack_min' = min_axis0(stack)
                /\ stack_max' = max_axis0(stack)
                /\ stack_med' = median_axis0(stack)
    /\ proc_pc' = "done"
    /\ UNCHANGED <<mainvars, gmvars>>

NextProc == ProcModscag

SpecProc == InitProc /\ [][NextProc]_vars

(* ------------------------ get_modscag, step by step -------------------- *)

\* the tile lists get_modis_tile_list can return
TileLists == {<< >>, <<"h08v04">>, <<"h08v04", "h09v04">>}

\* what get_modscag may meet: the cases of ModscagNets, and a server that
\* lists every tile of every date of the window
GmNets(dt, tile_list, pad) ==
    LET tiles == {tile_list[i] : i \in DOMAIN tile_list}
    IN  ModscagNets(dt, tile_list, pad)
          \cup {[avail |-> ((dt - pad)..(dt + pad)) \X tiles,
                 vrt |-> {}, vrt_files |-> {}]}

\* get_modscag(dem_dt, outdir, tile_list, pad_days) is called
InitModscag ==
    /\ MainIdle
    /\ ProcIdle
    /\ gm_pc = "start"
    /\ gm_dem_dt \in DemDates
    /\ gm_tile_list \in TileLists
    /\ gm_pad_days \in 0..MaxPad
    /\ gm_net \in GmNets(gm_dem_dt, gm_tile_list, gm_pad_days)
    /\ gm_dt_list = << >> /\ gm_dt_seen = << >> /\ gm_out_vrt_fn_list = << >>

\* lines 267-269: the window of dates and the empty result list
GmRange ==
    /\ gm_pc = "start"
    /\ gm_dt_list' = dt_range(gm_dem_dt - gm_pad_days, gm_dem_dt + gm_pad_days + 1, 1)
    /\ gm_out_vrt_fn_list' = << >>
    /\ gm_pc' = "loop"
    /\ UNCHANGED <<mainvars, procvars, gm_dem_dt, gm_tile_list, gm_pad_days,
                   gm_net, gm_dt_seen>>

\* lines 270-323: one pass of `for dt in dt_list`
GmDate ==
    /\ gm_pc = "loop"
    /\ Len(gm_dt_seen) < Len(gm_dt_list)
    /\ LET dt == gm_dt_list[Len(gm_dt_seen) + 1]
       IN  /\ gm_dt_seen' = Append(gm_dt_seen, dt)
           /\ gm_out_vrt_fn_list' =
                 modscag_date(gm_out_vrt_fn_list, dt, gm_tile_list, gm_net)
    /\ UNCHANGED <<mainvars, procvars, gm_pc, gm_dem_dt, gm_tile_list,
                   gm_pad_days, gm_net, gm_dt_list>>

\* line 324: dt_list is exhausted, out_vrt_fn_list is returned
GmReturn ==
    /\ gm_pc = "loop"
    /\ Len(gm_dt_seen) = Len(gm_dt_list)
    /\ gm_pc' = "done"
    /\ UNCHANGED <<mainvars, procvars, gm_dem_dt, gm_tile_list, gm_pad_days,
                   gm_net, gm_dt_list, gm_dt_seen, gm_out_vrt_fn_list>>

NextModscag ==
    \/ GmRange
    \/ GmDate
    \/ GmReturn

SpecModscag == InitModscag /\ [][NextModscag]_vars

(* ======================= properties of main() ========================== *)

SourceKeys == <<"lulc", "snodas", "modscag", "toa">>

\* the mask main() derived for a source
MaskOf(key) ==
    CASE key = "lulc" -> rockmask
      [] key = "snodas" -> snodas_mask
      [] key = "modscag" -> modscag_mask
      [] key = "toa" -> toa_mask

\* the sources whose mask was and-ed in
PresentKeys == {SourceKeys[i] : i \in DOMAIN SourceKeys} \cap DictKeys(ds_dict)

\* the control-surface mask, TRUE = usable, before line 545 inverts it
ControlMask == IF pc = "done" THEN invert(newmask) ELSE newmask

\* C1: a cell that is no-data in the DEM is false in the control-surface
\* mask at every stage of the AND-chain and in the final mask, and is
\* no-data in the masked DEM that is written, whatever the sources say.
C1_NoDataPropagation ==
    /\ pc \in {"rockmask", "snodas_mask", "modscag_mask", "toa_mask", "apply", "done"}
         => \A c \in Cells : dem[c].m => ~ControlMask[c]
    /\ pc = "done" => \A c \in Cells : dem[c].m => newdem[c].m

\* C1 witness: a finished run with all four sources, and a no-data DEM cell
\* at which every per-source mask is true
C1_Witness ==
    /\ pc = "done"
    /\ PresentKeys = {"lulc", "snodas", "modscag", "toa"}
    /\ \E c \in Cells :
         /\ dem[c].m
         /\ rockmask[c] /\ snodas_mask[c] /\ modscag_mask[c] /\ toa_mask[c]
         /\ ~ControlMask[c] /\ newdem[c].m

\* C2 (as claimed): a cell of the reconciled snow-cover composite with no
\* valid observation (masked, filled with 0 before the threshold) is false
\* in the snow-cover mask.
C2_NoObservationExcluded ==
    pc = "toa_mask" /\ modscag_perc # NoArray
      => \A c \in Cells : modscag_perc[c].m => ~modscag_mask[c]

\* C3 (as claimed): the culling step deletes exactly the None entries,
\* raises no error and hands over to reconciliation.
C3_CullRemovesNone ==
    [][pc = "cull" => /\ pc' = "warp"
                      /\ err' = "none"
                      /\ ds_dict' = SelectSeq(ds_dict, NotNone)]_vars

\* the corner and inner grid points of a box
BoxPoints(box) == (box[1]..box[3]) \X (box[2]..box[4])

PointIn(p, box) == box[1] <= p[1] /\ p[1] <= box[3] /\ box[2] <= p[2] /\ p[2] <= box[4]

\* C4: nlcd is chosen exactly when every point of the DEM footprint,
\* reprojected to the spatial reference of the NLCD grid, lies in the NLCD
\* coverage; otherwise (partial overlap included) bareground is chosen; and
\* the chosen product is the dataset under 'lulc' from then on.
C4_SourceSelection ==
    [][/\ pc = "lulc" =>
            LET box == geom_transform(dem_geom, lulc_geom.srs).box
                inside == \A p \in BoxPoints(box) : PointIn(p, lulc_geom.box)
            IN  /\ lulc_source' = IF inside THEN "nlcd" ELSE "bareground"
                /\ DictGet(ds_dict', "lulc").ds = lulc_source'
       /\ pc \notin {"lulc", "idle"} =>
            /\ lulc_source' = lulc_source
            /\ DictGet(ds_dict', "lulc").ds = lulc_source]_vars

\* C4 witness: a footprint that overlaps the coverage without lying in it,
\* resolved to bareground
C4_Witness ==
    /\ pc = "snodas"
    /\ dem_geom.srs = lulc_geom.srs
    /\ \E p \in BoxPoints(dem_geom.box) : PointIn(p, lulc_geom.box)
    /\ \E p \in BoxPoints(dem_geom.box) : ~PointIn(p, lulc_geom.box)
    /\ lulc_source = "bareground"
    /\ DictGet(ds_dict, "lulc").ds = "bareground"

\* get_modscag ran in this run
ModscagCalled == pc \in {"toa", "cull", "warp", "error"} /\ args.modscag /\ dem_dt >= modscag_min_dt

\* the dates of the window for which a mosaic exists or can be built: the
\* mosaic on disk holds every tile, or a server lists at least one tile
DatesWithTiles ==
    LET tile_list == get_modis_tile_list(dem_geom)
        tiles == {tile_list[i] : i \in DOMAIN tile_list}
    IN  {d \in (dem_dt - pad_days)..(dem_dt + pad_days) :
            \/ d \in net.vrt /\ \A t \in tiles : <<d, t>> \in net.vrt_files
            \/ \E t \in tiles : <<d, t>> \in net.avail}

\* C6 (as claimed): a date without a fetched tile adds nothing to the series
\* and the loop goes on to the later dates; and the run fails only if the
\* series has no date at all.
C6_SkipAndFailOnlyIfEmpty ==
    ModscagCalled =>
       /\ {modscag_fn_list[i] : i \in DOMAIN modscag_fn_list} = DatesWithTiles
       /\ \A i, j \in DOMAIN modscag_fn_list : i < j => modscag_fn_list[i] < modscag_fn_list[j]
       /\ pc = "error" => modscag_fn_list = << >>

RECURSIVE and_chain(_, _)
\* the masks of the computed sources among `order`, and-ed one at a time, in
\* that order, onto mask m
and_chain(order, m) ==
    IF order = << >> THEN m
    ELSE IF Head(order) \in PresentKeys
         THEN and_chain(Tail(order), logical_and(MaskOf(Head(order)), m))
         ELSE and_chain(Tail(order), m)

\* every order of the four sources
AllOrders ==
    {p \in [1..4 -> {"lulc", "snodas", "modscag", "toa"}] :
        \A i, j \in 1..4 : i # j => p[i] # p[j]}

\* the sources of S in the order main() takes them
CodeOrder(S) == LET in(k) == k \in S IN SelectSeq(SourceKeys, in)

\* C7: and-ing the computed per-source masks onto the DEM's valid cells in
\* any order gives, cell for cell, the final mask main() produced.
C7_OrderIndependent ==
    pc = "done" =>
       \A p \in AllOrders : and_chain(p, dem_valid(dem)) = ControlMask

\* C7 witness: a finished run with three or more sources whose masks differ
\* and a final mask that is neither full nor empty
C7_Witness ==
    /\ pc = "done"
    /\ Cardinality(PresentKeys) >= 3
    /\ rockmask # snodas_mask /\ snodas_mask # modscag_mask
    /\ \E c, d \in Cells : ControlMask[c] /\ ~ControlMask[d]

\* C8: for every set S of the computed sources and every further computed
\* source m, a cell that is true with S and m and-ed in is true with S
\* alone; the final mask of main() is the one with every computed source.
C8_Monotone ==
    pc = "done" =>
       /\ and_chain(SourceKeys, dem_valid(dem)) = ControlMask
       /\ \A S \in SUBSET PresentKeys : \A m \in PresentKeys \ S :
             LET with == and_chain(CodeOrder(S \cup {m}), dem_valid(dem))
                 without == and_chain(CodeOrder(S), dem_valid(dem))
             IN  \A c \in Cells : with[c] => without[c]

\* C8 witness: a finished run in which one more source (toa) turned a cell
\* that was true without it to false
C8_Witness ==
    /\ pc = "done"
    /\ "toa" \in PresentKeys
    /\ \E c \in Cells :
         /\ and_chain(CodeOrder(PresentKeys \ {"toa"}), dem_valid(dem))[c]
         /\ ~ControlMask[c]

\* C9: in the bare-ground mask a cell at the threshold (80) or below is
\* false, and a cell above it is true when it lies outside every outline.
C9_BaregroundStrict ==
    pc = "snodas_mask" /\ lulc_source = "bareground" =>
       \A c \in Cells :
          /\ lulc_l[c] <= minperc => ~rockmask[c]
          /\ lulc_l[c] > minperc /\ c \notin glac_shp => rockmask[c]

\* C9 witness: one cell exactly at 80 percent, false, and one at 81 percent
\* outside the outlines, true
C9_Witness ==
    /\ pc = "snodas_mask" /\ lulc_source = "bareground"
    /\ \E c, d \in Cells :
         /\ lulc_l[c] = minperc /\ c \notin glac_shp /\ ~rockmask[c]
         /\ lulc_l[d] = minperc + 1 /\ d \notin glac_shp /\ rockmask[d]

\* the cell passes the land-cover rule of the chosen product
PassesLulcRule(c) ==
    IF lulc_source = "nlcd" THEN lulc_l[c] = nlcd_rock ELSE lulc_l[c] > minperc

\* C10: under either land-cover rule a cell that passes the rule is false in
\* the land-cover mask when it lies inside a glacier outline and true when
\* it lies outside every outline.
C10_GlacierSuppression ==
    pc = "snodas_mask" =>
       \A c \in Cells :
          PassesLulcRule(c) => (rockmask[c] <=> c \notin glac_shp)

\* C10 witness: NLCD rock inside an outline, false, beside NLCD rock
\* outside the outlines, true
C10_Witness ==
    /\ pc = "snodas_mask" /\ lulc_source = "nlcd"
    /\ \E c, d \in Cells :
         /\ lulc_l[c] = nlcd_rock /\ c \in glac_shp /\ ~rockmask[c]
         /\ lulc_l[d] = nlcd_rock /\ d \notin glac_shp /\ rockmask[d]

(* ==================== properties of proc_modscag() ===================== *)

\* the dates whose value at cell c is valid: data, and not above 100
ValidDates(c) ==
    {i \in DOMAIN ma_stack :
        ma_stack[i][c].v # vrtnodata /\ ma_stack[i][c].v <= modscag_max_valid}

\* the k-th smallest of the valid values of cell c
KthValid(c, k) ==
    CHOOSE x \in {ma_stack[i][c].v : i \in ValidDates(c)} :
        /\ Cardinality({i \in ValidDates(c) : ma_stack[i][c].v < x}) < k
        /\ Cardinality({i \in ValidDates(c) : ma_stack[i][c].v <= x}) >= k

\* count, min and max over the valid values only; all four outputs masked
\* where no date is valid
CountMinMaxRight(c) ==
    LET n == Cardinality(ValidDates(c))
    IN  IF n = 0
        THEN stack_count[c].m /\ stack_min[c].m /\ stack_max[c].m /\ stack_med[c].m
        ELSE /\ stack_count[c] = Val(n)
             /\ stack_min[c] = Val(KthValid(c, 1))
             /\ stack_max[c] = Val(KthValid(c, n))
             /\ ~stack_med[c].m

\* C5 (as claimed): the median of an even number of valid values is the
\* average of the two middle values.
C5_ExactMedian ==
    proc_pc = "done" =>
       \A c \in StackCells :
          LET n == Cardinality(ValidDates(c))
          IN  /\ CountMinMaxRight(c)
              /\ n > 0 /\ n % 2 = 1 => stack_med[c].v = KthValid(c, (n + 1) \div 2)
              /\ n > 0 /\ n % 2 = 0 =>
                    2 * stack_med[c].v = KthValid(c, n \div 2) + KthValid(c, (n \div 2) + 1)

\* C5 (amended): as claimed, but the median of an even number of valid
\* values is the average of the two middle values with its fraction cut
\* off, the composite being stored as an unsigned byte.
C5_TruncatedMedian ==
    proc_pc = "done" =>
       \A c \in StackCells :
          LET n == Cardinality(ValidDates(c))
          IN  /\ CountMinMaxRight(c)
              /\ n > 0 /\ n % 2 = 1 => stack_med[c].v = KthValid(c, (n + 1) \div 2)
              /\ n > 0 /\ n % 2 = 0 =>
                    stack_med[c].v = (KthValid(c, n \div 2) + KthValid(c, (n \div 2) + 1)) \div 2

\* C5 witness: the series [20, missing, 60] gives count 2, min 20, max 60,
\* median 40
C5_Witness ==
    /\ proc_pc = "done"
    /\ Len(ma_stack) = 3
    /\ \E c \in StackCells :
         /\ ma_stack[1][c] = Val(20) /\ ma_stack[2][c].m /\ ma_stack[3][c] = Val(60)
         /\ stack_count[c] = Val(2) /\ stack_min[c] = Val(20)
         /\ stack_max[c] = Val(60) /\ stack_med[c] = Val(40)

(* C11: snow-depth and reflectance thresholds *)

\* the source raster has data at cell c and its value is within the limit
WithinLimit(a, c, limit) == ~a[c].m /\ a[c].v <= limit

\* C11: once the snow-depth mask (resp. the reflectance mask) is computed, a
\* cell is true in it exactly when the source raster has data there and the
\* value does not exceed the threshold: the threshold itself is valid, a
\* value above it is not, and a cell without data is never valid.
C11_ThresholdRule ==
    /\ pc = "modscag_mask" /\ "snodas" \in DictKeys(ds_dict)
         => \A c \in Cells :
               snodas_mask[c] <=> WithinLimit(snodas_depth, c, snodas_max_depth)
    /\ pc = "apply" /\ "toa" \in DictKeys(ds_dict)
         => \A c \in Cells : toa_mask[c] <=> WithinLimit(toa, c, toa_thresh)

\* the snow-depth mask was just computed from a cell at the maximum depth
\* (kept) and a cell without data whose stored number is below it (dropped)
C11_Witness ==
    /\ pc = "modscag_mask" /\ "snodas" \in DictKeys(ds_dict)
    /\ snodas_depth[1] = Val(snodas_max_depth) /\ snodas_mask[1]
    /\ snodas_depth[2] = Masked(0) /\ ~snodas_mask[2]

(* C12: the window of dates of get_modscag *)

\* the dates D-P, D-P+1, ..., D+P of the call, in increasing order
Window ==
    [i \in 1..(2 * gm_pad_days + 1) |-> gm_dem_dt - gm_pad_days + (i - 1)]

\* C12: for centre date D and pad P, get_modscag's dt_list is exactly the
\* 2P+1 consecutive days D-P .. D+P; the loop takes them one by one, each
\* once and in increasing order, and has taken all of them when it returns;
\* so the returned series holds at most one mosaic per date, in increasing
\* order, and no date outside the window.
C12_DateWindow ==
    /\ gm_pc \in {"loop", "done"} => gm_dt_list = Window
    /\ Len(gm_dt_seen) <= 2 * gm_pad_days + 1
    /\ \A i \in DOMAIN gm_dt_seen : gm_dt_seen[i] = gm_dem_dt - gm_pad_days + (i - 1)
    /\ gm_pc = "done" => gm_dt_seen = Window
    /\ \A i, j \in DOMAIN gm_out_vrt_fn_list :
          i < j => gm_out_vrt_fn_list[i] < gm_out_vrt_fn_list[j]
    /\ \A i \in DOMAIN gm_out_vrt_fn_list :
          /\ gm_dem_dt - gm_pad_days <= gm_out_vrt_fn_list[i]
          /\ gm_out_vrt_fn_list[i] <= gm_dem_dt + gm_pad_days

\* get_modscag returned with pad 2 after five passes of the loop, and every
\* date of the window has its mosaic
C12_Witness ==
    /\ gm_pc = "done" /\ gm_pad_days = 2
    /\ Len(gm_dt_seen) = 5
    /\ gm_out_vrt_fn_list = gm_dt_seen

=============================================================================
